---- MODULE Spec2Model ----
(***************************************************************************)
(* Model of the mock authentication flow of src/index.tsx: the AuthProvider *)
(* state container (user, isLoading, showAuthModal, authView and the        *)
(* 'viralAuditUser' entry of localStorage), the AuthModal form (email,      *)
(* password, loading and the submissions waiting for their 1000 ms timer),  *)
(* and the Navbar / Hero / PricingCard click handlers that consume it.      *)
(*                                                                          *)
(* One action is one run of a handler: React batches the state updates a    *)
(* handler makes and renders before the next event, so the next handler     *)
(* sees all of them.  handleSubmit is split at its await: the part before   *)
(* it is one action, the continuation after the timer another.              *)
(***************************************************************************)
EXTENDS Integers, Sequences, FiniteSets, TLC

\* ------------------------------------------------------------------ bounds
\* How many of the addresses of AllEmails a visitor may type or the store hold.
NumEmails == 2

AllEmails == <<"a@b.com", "c@d.io", "e@f.org", "g@h.net">>
Emails == {AllEmails[i] : i \in 1..NumEmails}

\* A value the browser's type="email" validation rejects.
InvalidEmail == "not-an-email"
\* What a visitor can put in the email and the password field.
EmailInputs == Emails \cup {"", InvalidEmail}
PasswordInputs == {"", "hunter2"}
\* A name a stored record may carry (type User has an optional name).
Names == {"Ann"}

\* ------------------------------------------------------------- JavaScript
\* JavaScript's null.  A User is a record with an email and maybe a name.
null == [null |-> TRUE]

Users == [email : Emails] \cup [email : Emails, name : Names]

\* The key of the one localStorage entry the page uses.
STORAGE_KEY == "viralAuditUser"
INSTALL_URL == "https://google.com"
CheckoutUrls == {"https://example.com/checkout-starter", "https://example.com/checkout-pro"}

\* A JSON text is the sequence of its tokens.
\* JSON.stringify of a User: the keys in insertion order, name only if present.
JSONstringify(u) ==
    IF "name" \in DOMAIN u
    THEN <<"{", "email", ":", u.email, ",", "name", ":", u.name, "}">>
    ELSE <<"{", "email", ":", u.email, "}">>

IsObject1(t) ==
    /\ Len(t) = 5
    /\ t[1] = "{" /\ t[2] = "email" /\ t[3] = ":" /\ t[5] = "}"

IsObject2(t) ==
    /\ Len(t) = 9
    /\ t[1] = "{" /\ t[2] = "email" /\ t[3] = ":" /\ t[5] = ","
    /\ t[6] = "name" /\ t[7] = ":" /\ t[9] = "}"

\* JSON.parse returns a value for these texts and throws a SyntaxError for
\* every other one.
Parses(t) == t = <<"null">> \/ IsObject1(t) \/ IsObject2(t)

\* A parse that keeps only the email of the stored record.
JSONparseEmailOnly(t) ==
    IF IsObject1(t) \/ IsObject2(t) THEN [email |-> t[4]] ELSE null

JSONparse(t) ==
    IF IsObject1(t) THEN [email |-> t[4]]
    ELSE IF IsObject2(t) THEN [email |-> t[4], name |-> t[8]]
    ELSE null

\* Texts the entry can hold when the page loads: what an earlier visit wrote,
\* and what anything else of the origin may have left there.
TruncatedText == <<"{", "email", ":">>
StoredTexts ==
    {JSONstringify(u) : u \in Users} \cup {<<>>, <<"null">>, TruncatedText}

\* localStorage as a function from the keys it holds to their texts.
EmptyStorage == [k \in {} |-> <<>>]
StorageWith(t) == [k \in {STORAGE_KEY} |-> t]
hasItem(store, k) == k \in DOMAIN store
setItem(store, k, t) == [j \in DOMAIN store \cup {k} |-> IF j = k THEN t ELSE store[j]]
removeItem(store, k) == [j \in DOMAIN store \ {k} |-> store[j]]

\* ------------------------------------------------------------------ state
VARIABLES
    user,           \* AuthProvider: User | null
    isLoading,      \* AuthProvider
    showAuthModal,  \* AuthProvider
    authView,       \* AuthProvider: "login" | "signup"
    localStorage,   \* the origin's key-value store
    email,          \* AuthModal: the email field
    password,       \* AuthModal: the password field
    loading,        \* AuthModal: a submission is being processed
    pending,        \* handleSubmit runs suspended at their await, oldest first
    effect,         \* the mount effect of AuthProvider: "scheduled", "done", "failed"
    last            \* the handler that ran last and what it did to the browser

vars == <<user, isLoading, showAuthModal, authView, localStorage,
          email, password, loading, pending, effect, last>>

provider == <<user, isLoading, showAuthModal, authView, localStorage>>
form == <<email, password, loading, pending>>

\* What the last handler or operation was, the argument it was given, whether
\* it called preventDefault, and the URL the browser opened because of it.
Event(name, arg, prevented, opened) ==
    [event |-> name, arg |-> arg, defaultPrevented |-> prevented, opened |-> opened]

\* useState initial values; the store is whatever the origin holds.
Init ==
    /\ user = null
    /\ isLoading = TRUE
    /\ showAuthModal = FALSE
    /\ authView = "signup"
    /\ localStorage \in {EmptyStorage} \cup {StorageWith(t) : t \in StoredTexts}
    /\ email = ""
    /\ password = ""
    /\ loading = FALSE
    /\ pending = <<>>
    /\ effect = "scheduled"
    /\ last = Event("render", "", FALSE, "")

\* The tree is on the page: an error thrown by the mount effect is caught by
\* no error boundary, and React then unmounts the whole root.
Mounted == effect # "failed"

\* The AuthModal shows its form: showAuthModal is true in the render on the
\* page.  A render that follows the first one runs after the mount effect
\* (React flushes pending effects before it renders again).
ModalOpen == effect = "done" /\ showAuthModal

\* ------------------------------------------------- AuthProvider operations
\* useEffect(..., []) of AuthProvider.
SessionCheck ==
    /\ effect = "scheduled"
    /\ last' = Event("sessionCheck", "", FALSE, "")
    /\ UNCHANGED <<showAuthModal, authView, localStorage, form>>
    /\ IF hasItem(localStorage, STORAGE_KEY) /\ localStorage[STORAGE_KEY] # <<>>
       THEN IF Parses(localStorage[STORAGE_KEY])
            THEN /\ user' = JSONparse(localStorage[STORAGE_KEY])
                 /\ isLoading' = FALSE
                 /\ effect' = "done"
            ELSE \* JSON.parse throws: setUser and setIsLoading are not reached
                 /\ effect' = "failed"
                 /\ UNCHANGED <<user, isLoading>>
       ELSE /\ isLoading' = FALSE
            /\ effect' = "done"
            /\ UNCHANGED user

\* A login that updates the email of the record it finds instead of replacing it.
loginMerge(e) ==
    /\ user' = IF user # null /\ "name" \in DOMAIN user
               THEN [email |-> e, name |-> user.name]
               ELSE [email |-> e]
    /\ localStorage' = setItem(localStorage, STORAGE_KEY, JSONstringify(user'))
    /\ showAuthModal' = FALSE

\* A login that keeps the session in memory only.
loginSessionOnly(e) ==
    /\ user' = [email |-> e]
    /\ UNCHANGED localStorage
    /\ showAuthModal' = FALSE

login(e) ==
    /\ user' = [email |-> e]
    /\ localStorage' = setItem(localStorage, STORAGE_KEY, JSONstringify([email |-> e]))
    /\ showAuthModal' = FALSE

\* A signup that leaves the dialog open (say, to show a welcome step).
signupKeepsDialog(e) ==
    /\ user' = [email |-> e]
    /\ localStorage' = setItem(localStorage, STORAGE_KEY, JSONstringify([email |-> e]))
    /\ UNCHANGED showAuthModal

\* A signup that persists the view of the dialog along with the email.
signupStoresView(e) ==
    /\ user' = [email |-> e]
    /\ localStorage' = setItem(localStorage, STORAGE_KEY,
                               <<"{", "email", ":", e, ",", "authView", ":", authView, "}">>)
    /\ showAuthModal' = FALSE

signup(e) ==
    /\ user' = [email |-> e]
    /\ localStorage' = setItem(localStorage, STORAGE_KEY, JSONstringify([email |-> e]))
    /\ showAuthModal' = FALSE

\* A logout that forgets the persisted record.
logoutKeepsItem ==
    /\ user' = null
    /\ UNCHANGED localStorage

\* A logout that removes the entry only when it finds no user on the page.
logoutInverted ==
    /\ user' = null
    /\ localStorage' = IF user = null
                       THEN removeItem(localStorage, STORAGE_KEY)
                       ELSE localStorage

logout ==
    /\ user' = null
    /\ localStorage' = removeItem(localStorage, STORAGE_KEY)

\* ------------------------------------------------------- click handlers
\* An install handler that opens the dialog in whatever view it was left in.
NavbarHandleInstallClickKeepsView ==
    /\ Mounted
    /\ IF user # null
       THEN /\ last' = Event("navbarInstall", "", TRUE, INSTALL_URL)
            /\ UNCHANGED <<authView, showAuthModal>>
       ELSE /\ last' = Event("navbarInstall", "", TRUE, "")
            /\ showAuthModal' = TRUE
            /\ UNCHANGED authView
    /\ UNCHANGED <<user, isLoading, localStorage, form, effect>>

\* Navbar.handleInstallClick: the Download / Install Extension anchor.
NavbarHandleInstallClick ==
    /\ Mounted
    /\ IF user # null
       THEN /\ last' = Event("navbarInstall", "", TRUE, INSTALL_URL)
            /\ UNCHANGED <<authView, showAuthModal>>
       ELSE /\ last' = Event("navbarInstall", "", TRUE, "")
            /\ authView' = "signup"
            /\ showAuthModal' = TRUE
    /\ UNCHANGED <<user, isLoading, localStorage, form, effect>>

\* An install handler that opens the signup dialog for a signed-in visitor too.
HeroHandleInstallClickAlwaysAsks ==
    /\ Mounted
    /\ last' = Event("heroInstall", "", TRUE, IF user # null THEN INSTALL_URL ELSE "")
    /\ authView' = "signup"
    /\ showAuthModal' = TRUE
    /\ UNCHANGED <<user, isLoading, localStorage, form, effect>>

\* Hero.handleInstallClick: the hero section's install anchor.
HeroHandleInstallClick ==
    /\ Mounted
    /\ IF user # null
       THEN /\ last' = Event("heroInstall", "", TRUE, INSTALL_URL)
            /\ UNCHANGED <<authView, showAuthModal>>
       ELSE /\ last' = Event("heroInstall", "", TRUE, "")
            /\ authView' = "signup"
            /\ showAuthModal' = TRUE
    /\ UNCHANGED <<user, isLoading, localStorage, form, effect>>

\* A checkout handler that opens the dialog but lets the link go through.
handleCheckoutNoPrevent(checkoutUrl) ==
    /\ Mounted
    /\ last' = Event("checkout", checkoutUrl, FALSE, checkoutUrl)
    /\ IF user = null
       THEN /\ authView' = "signup"
            /\ showAuthModal' = TRUE
       ELSE UNCHANGED <<authView, showAuthModal>>
    /\ UNCHANGED <<user, isLoading, localStorage, form, effect>>

\* PricingCard.handleCheckout on the anchor with href = checkoutUrl: without
\* preventDefault the browser follows the link.
handleCheckout(checkoutUrl) ==
    /\ Mounted
    /\ IF user = null
       THEN /\ last' = Event("checkout", checkoutUrl, TRUE, "")
            /\ authView' = "signup"
            /\ showAuthModal' = TRUE
       ELSE /\ last' = Event("checkout", checkoutUrl, FALSE, checkoutUrl)
            /\ UNCHANGED <<authView, showAuthModal>>
    /\ UNCHANGED <<user, isLoading, localStorage, form, effect>>

\* A Login button that the Navbar renders in both of its branches.
NavbarLoginClickAlways ==
    /\ Mounted
    /\ authView' = "login"
    /\ showAuthModal' = TRUE
    /\ last' = Event("navbarLogin", "", FALSE, "")
    /\ UNCHANGED <<user, isLoading, localStorage, form, effect>>

\* Navbar, the Login button: rendered in the branch without a user.
NavbarLoginClick ==
    /\ Mounted
    /\ user = null
    /\ authView' = "login"
    /\ showAuthModal' = TRUE
    /\ last' = Event("navbarLogin", "", FALSE, "")
    /\ UNCHANGED <<user, isLoading, localStorage, form, effect>>

\* A Logout button that puts the container back into its loading state.
NavbarLogoutClickReloads ==
    /\ Mounted
    /\ user # null
    /\ logout
    /\ isLoading' = TRUE
    /\ last' = Event("logout", "", FALSE, "")
    /\ UNCHANGED <<showAuthModal, authView, form, effect>>

\* Navbar, the Logout button: rendered in the branch with a user.
NavbarLogoutClick ==
    /\ Mounted
    /\ user # null
    /\ logout
    /\ last' = Event("logout", "", FALSE, "")
    /\ UNCHANGED <<isLoading, showAuthModal, authView, form, effect>>

\* --------------------------------------------------------------- AuthModal
\* The backdrop's onClick.
BackdropClick ==
    /\ ModalOpen
    /\ showAuthModal' = FALSE
    /\ last' = Event("backdrop", "", FALSE, "")
    /\ UNCHANGED <<user, isLoading, authView, localStorage, form, effect>>

\* The header's close button.
CloseButtonClick ==
    /\ ModalOpen
    /\ showAuthModal' = FALSE
    /\ last' = Event("closeButton", "", FALSE, "")
    /\ UNCHANGED <<user, isLoading, authView, localStorage, form, effect>>

\* "Sign up", offered in the login view.
SignUpToggleClick ==
    /\ ModalOpen
    /\ authView = "login"
    /\ authView' = "signup"
    /\ last' = Event("toggleSignup", "", FALSE, "")
    /\ UNCHANGED <<user, isLoading, showAuthModal, localStorage, form, effect>>

\* "Sign in", offered in the signup view.
SignInToggleClick ==
    /\ ModalOpen
    /\ authView = "signup"
    /\ authView' = "login"
    /\ last' = Event("toggleLogin", "", FALSE, "")
    /\ UNCHANGED <<user, isLoading, showAuthModal, localStorage, form, effect>>

\* onChange of the email input.
EmailChange(v) ==
    /\ ModalOpen
    /\ email' = v
    /\ last' = Event("emailChange", "", FALSE, "")
    /\ UNCHANGED <<provider, password, loading, pending, effect>>

\* onChange of the password input.
PasswordChange(v) ==
    /\ ModalOpen
    /\ password' = v
    /\ last' = Event("passwordChange", "", FALSE, "")
    /\ UNCHANGED <<provider, email, loading, pending, effect>>

\* A form whose submit button is never disabled.
CanSubmitWhileLoading ==
    /\ ModalOpen
    /\ email \notin {"", InvalidEmail}
    /\ password # ""

\* The browser fires the form's submit event: the submit button is not
\* disabled, and the required email (type="email") and password are valid.
CanSubmit ==
    /\ ModalOpen
    /\ ~loading
    /\ email \notin {"", InvalidEmail}
    /\ password # ""

\* A handleSubmit that never enters the submitting state.
handleSubmitNoLoading ==
    /\ CanSubmit
    /\ pending' = Append(pending, [authView |-> authView, email |-> email])
    /\ last' = Event("submit", "", TRUE, "")
    /\ UNCHANGED <<provider, email, password, loading, effect>>

\* A handleSubmit that signs the visitor in without waiting for the timer.
handleSubmitEager ==
    /\ CanSubmit
    /\ loading' = TRUE
    /\ pending' = Append(pending, [authView |-> authView, email |-> email])
    /\ login(email)
    /\ last' = Event("submit", "", TRUE, "")
    /\ UNCHANGED <<isLoading, authView, email, password, effect>>

\* handleSubmit up to its await.  The run keeps the authView and the email of
\* the render it was created in.
handleSubmit ==
    /\ CanSubmit
    /\ loading' = TRUE
    /\ pending' = Append(pending, [authView |-> authView, email |-> email])
    /\ last' = Event("submit", "", TRUE, "")
    /\ UNCHANGED <<provider, email, password, effect>>

\* A continuation that leaves the fields as they are.
handleSubmitResumeKeepsFields ==
    /\ pending # <<>>
    /\ IF Head(pending).authView = "login"
       THEN /\ login(Head(pending).email)
            /\ last' = Event("login", Head(pending).email, FALSE, "")
       ELSE /\ signup(Head(pending).email)
            /\ last' = Event("signup", Head(pending).email, FALSE, "")
    /\ loading' = FALSE
    /\ pending' = Tail(pending)
    /\ UNCHANGED <<isLoading, authView, email, password, effect>>

\* A continuation that gives up when the dialog was closed during the delay.
handleSubmitResumeUnlessClosed ==
    /\ pending # <<>>
    /\ IF showAuthModal
       THEN /\ IF Head(pending).authView = "login"
               THEN /\ login(Head(pending).email)
                    /\ last' = Event("login", Head(pending).email, FALSE, "")
               ELSE /\ signup(Head(pending).email)
                    /\ last' = Event("signup", Head(pending).email, FALSE, "")
       ELSE /\ last' = Event("cancelled", Head(pending).email, FALSE, "")
            /\ UNCHANGED <<user, localStorage, showAuthModal>>
    /\ loading' = FALSE
    /\ email' = ""
    /\ password' = ""
    /\ pending' = Tail(pending)
    /\ UNCHANGED <<isLoading, authView, effect>>

\* A continuation that looks at the authView of the page when the timer fires.
handleSubmitResumeCurrentView ==
    /\ pending # <<>>
    /\ IF authView = "login"
       THEN /\ login(Head(pending).email)
            /\ last' = Event("login", Head(pending).email, FALSE, "")
       ELSE /\ signup(Head(pending).email)
            /\ last' = Event("signup", Head(pending).email, FALSE, "")
    /\ loading' = FALSE
    /\ email' = ""
    /\ password' = ""
    /\ pending' = Tail(pending)
    /\ UNCHANGED <<isLoading, authView, effect>>

\* A continuation that reads the email field as it is when the timer fires.
handleSubmitResumeCurrentEmail ==
    /\ pending # <<>>
    /\ IF Head(pending).authView = "login"
       THEN /\ login(email)
            /\ last' = Event("login", email, FALSE, "")
       ELSE /\ signup(email)
            /\ last' = Event("signup", email, FALSE, "")
    /\ loading' = FALSE
    /\ email' = ""
    /\ password' = ""
    /\ pending' = Tail(pending)
    /\ UNCHANGED <<isLoading, authView, effect>>

\* handleSubmit after its await: the oldest timer has fired.
handleSubmitResume ==
    /\ pending # <<>>
    /\ IF Head(pending).authView = "login"
       THEN /\ login(Head(pending).email)
            /\ last' = Event("login", Head(pending).email, FALSE, "")
       ELSE /\ signup(Head(pending).email)
            /\ last' = Event("signup", Head(pending).email, FALSE, "")
    /\ loading' = FALSE
    /\ email' = ""
    /\ password' = ""
    /\ pending' = Tail(pending)
    /\ UNCHANGED <<isLoading, authView, effect>>

Next ==
    \/ SessionCheck
    \/ NavbarHandleInstallClick
    \/ HeroHandleInstallClick
    \/ \E checkoutUrl \in CheckoutUrls : handleCheckout(checkoutUrl)
    \/ NavbarLoginClick
    \/ NavbarLogoutClick
    \/ BackdropClick
    \/ CloseButtonClick
    \/ SignUpToggleClick
    \/ SignInToggleClick
    \/ \E v \in EmailInputs : EmailChange(v)
    \/ \E v \in PasswordInputs : PasswordChange(v)
    \/ handleSubmit
    \/ handleSubmitResume

Spec == Init /\ [][Next]_vars

\* The timer of setTimeout(resolve, 1000) fires: a suspended handleSubmit is
\* resumed once its delay has passed.
FairSpec == Spec /\ WF_vars(handleSubmitResume)

\* ------------------------------------------------------------------ reload
\* The visitor reloads the page: the script runs again from the top, every
\* useState starts from its initial value, timers of the old page are gone
\* and the mount effect is scheduled again.  localStorage belongs to the
\* origin and stays.  No handler of the page runs, so last keeps the record
\* of the handler that ran last before the reload.
Reload ==
    /\ user' = null
    /\ isLoading' = TRUE
    /\ showAuthModal' = FALSE
    /\ authView' = "signup"
    /\ email' = ""
    /\ password' = ""
    /\ loading' = FALSE
    /\ pending' = <<>>
    /\ effect' = "scheduled"
    /\ UNCHANGED <<localStorage, last>>

ReloadNext ==
    \/ Next
    \/ Reload

ReloadSpec == Init /\ [][ReloadNext]_vars

\* ------------------------------ the container's operations on their own
\* The operations of the AuthContext value, called by any consumer from any
\* state of the container (the store is shared by every page of the origin,
\* so it need not agree with the user the page holds).
ContainerInit ==
    /\ user \in Users \cup {null}
    /\ isLoading \in BOOLEAN
    /\ showAuthModal \in BOOLEAN
    /\ authView \in {"login", "signup"}
    /\ localStorage \in {EmptyStorage} \cup {StorageWith(t) : t \in StoredTexts}
    /\ email = ""
    /\ password = ""
    /\ loading = FALSE
    /\ pending = <<>>
    /\ effect = "done"
    /\ last = Event("render", "", FALSE, "")

CallLogin(e) ==
    /\ login(e)
    /\ last' = Event("login", e, FALSE, "")
    /\ UNCHANGED <<isLoading, authView, form, effect>>

CallSignup(e) ==
    /\ signup(e)
    /\ last' = Event("signup", e, FALSE, "")
    /\ UNCHANGED <<isLoading, authView, form, effect>>

\* A logout that also closes the dialog.
CallLogoutClosesDialog ==
    /\ logout
    /\ showAuthModal' = FALSE
    /\ last' = Event("logout", "", FALSE, "")
    /\ UNCHANGED <<isLoading, authView, form, effect>>

CallLogout ==
    /\ logout
    /\ last' = Event("logout", "", FALSE, "")
    /\ UNCHANGED <<isLoading, showAuthModal, authView, form, effect>>

\* A setter that also puts the dialog back to its signup view.
CallSetShowAuthModalResetsView(show) ==
    /\ showAuthModal' = show
    /\ authView' = "signup"
    /\ last' = Event("setShowAuthModal", IF show THEN "true" ELSE "false", FALSE, "")
    /\ UNCHANGED <<user, isLoading, localStorage, form, effect>>

CallSetShowAuthModal(show) ==
    /\ showAuthModal' = show
    /\ last' = Event("setShowAuthModal", IF show THEN "true" ELSE "false", FALSE, "")
    /\ UNCHANGED <<user, isLoading, authView, localStorage, form, effect>>

CallSetAuthView(view) ==
    /\ authView' = view
    /\ last' = Event("setAuthView", view, FALSE, "")
    /\ UNCHANGED <<user, isLoading, showAuthModal, localStorage, form, effect>>

ContainerNext ==
    \/ \E e \in EmailInputs : CallLogin(e)
    \/ \E e \in EmailInputs : CallSignup(e)
    \/ CallLogout
    \/ \E show \in BOOLEAN : CallSetShowAuthModal(show)
    \/ \E view \in {"login", "signup"} : CallSetAuthView(view)

ContainerSpec == ContainerInit /\ [][ContainerNext]_vars

\* ------------------------------------------------------------------ claims
\* C1: in every reachable state of the page, a Session (user # null) implies
\* that showAuthModal is false.
SessionImpliesModalClosed == user # null => ~showAuthModal

\* C2: login(email) and signup(email), from every state of the container,
\* leave the Session equal to the record {email} without a name, the entry
\* under the fixed key equal to that record and nothing else in the store,
\* and showAuthModal false.
LoginSignupResult ==
    [][last'.event \in {"login", "signup"} =>
        /\ user' = [email |-> last'.arg]
        /\ "name" \notin DOMAIN user'
        /\ DOMAIN localStorage' = {STORAGE_KEY}
        /\ Parses(localStorage'[STORAGE_KEY])
        /\ JSONparse(localStorage'[STORAGE_KEY]) = user'
        /\ showAuthModal' = FALSE]_vars

LoginSignupDone ==
    /\ last.event \in {"login", "signup"}
    /\ user = [email |-> last.arg]
    /\ localStorage = StorageWith(<<"{", "email", ":", last.arg, "}">>)
    /\ ~showAuthModal

\* C3: logout(), from every state of the container (Session present or
\* absent, entry present or absent), leaves the Session absent and the entry
\* removed.
LogoutClears ==
    [][last'.event = "logout" =>
        user' = null /\ ~hasItem(localStorage', STORAGE_KEY)]_vars

LogoutDone ==
    /\ last.event = "logout"
    /\ user = null
    /\ DOMAIN localStorage = {}

\* C4: the session check at startup, run against a store holding a
\* well-formed record, leaves the Session equal to that record and isLoading
\* false; run against a store without the entry, it leaves the Session absent
\* and isLoading false.
SessionCheckResult ==
    [][last'.event = "sessionCheck" =>
        /\ (hasItem(localStorage, STORAGE_KEY)
              /\ localStorage[STORAGE_KEY] \in {JSONstringify(u) : u \in Users}
            => /\ user' \in Users
               /\ JSONstringify(user') = localStorage[STORAGE_KEY]
               /\ ~isLoading')
        /\ (~hasItem(localStorage, STORAGE_KEY)
            => user' = null /\ ~isLoading')]_vars

SessionRestored ==
    /\ last.event = "sessionCheck"
    /\ user \in Users
    /\ "name" \in DOMAIN user
    /\ localStorage = StorageWith(JSONstringify(user))
    /\ ~isLoading

\* C5: once the session check has run, isLoading is false, whatever the
\* entry held: a text that does not parse leaves the Session absent and
\* isLoading false.
SessionCheckAlwaysReady ==
    effect # "scheduled" => (~isLoading /\ (effect = "failed" => user = null))

\* C6: at most one submission is in flight in every reachable state, also
\* when the dialog is closed and opened again during the delay.
AtMostOneSubmission == Len(pending) <= 1

SubmissionInFlightDialogReopened ==
    /\ Len(pending) = 1
    /\ loading
    /\ ModalOpen
    /\ email \in Emails
    /\ password # ""
    /\ last.event \in {"navbarLogin", "navbarInstall", "heroInstall", "checkout"}

\* C7: the order of a submission: the submit sets loading and leaves the
\* Session and the entry alone; while it waits, the Session and the entry
\* change only by its own completion (or a logout); the completion sets the
\* Session from the submitted email, and loading turns false and the fields
\* empty no earlier than that.
SubmissionOrder ==
    [][/\ (last'.event = "submit" =>
             /\ loading'
             /\ user' = user
             /\ localStorage' = localStorage
             /\ Len(pending') = Len(pending) + 1)
       /\ (pending # <<>> /\ (user' # user \/ localStorage' # localStorage) =>
             last'.event \in {"login", "signup", "logout"})
       /\ (last'.event \in {"login", "signup"} =>
             /\ pending # <<>>
             /\ loading
             /\ user' = [email |-> Head(pending).email]
             /\ ~loading'
             /\ email' = ""
             /\ password' = "")
       /\ (loading /\ ~loading' => last'.event \in {"login", "signup"})]_vars

SubmissionCompleted ==
    /\ last.event \in {"login", "signup"}
    /\ user = [email |-> last.arg]
    /\ ~loading
    /\ email = ""
    /\ password = ""
    /\ pending = <<>>

\* C8: the submit control is disabled (loading) in every state between a
\* submit and the completion of its delay, and loading is false in the state
\* that follows the Session update of the submission.
SubmitDisabledDuringDelay ==
    /\ (pending # <<>> => loading)
    /\ (last.event \in {"login", "signup"} => ~loading)

DisabledWhileDialogClosed ==
    /\ pending # <<>>
    /\ loading
    /\ ~showAuthModal
    /\ last.event \in {"backdrop", "closeButton"}

\* C9: an install click (Navbar or Hero) without a Session opens no URL,
\* sets showAuthModal and sets authView to signup, whatever authView was.
InstallWithoutSessionOpensSignup ==
    [][last'.event \in {"navbarInstall", "heroInstall"} /\ user = null =>
        /\ last'.opened = ""
        /\ last'.defaultPrevented
        /\ showAuthModal'
        /\ authView' = "signup"]_vars

InstallClickedAfterLoginView ==
    /\ last.event \in {"navbarInstall", "heroInstall"}
    /\ last.opened = ""
    /\ user = null
    /\ showAuthModal
    /\ authView = "signup"
    /\ pending # <<>>
    /\ Head(pending).authView = "login"

\* C10: an install click (Navbar or Hero) with a Session opens the install
\* URL and leaves showAuthModal, authView, the Session and the entry as
\* they were.
InstallWithSessionOpensUrl ==
    [][last'.event \in {"navbarInstall", "heroInstall"} /\ user # null =>
        /\ last'.opened = INSTALL_URL
        /\ UNCHANGED <<showAuthModal, authView, user, localStorage>>]_vars

InstallOpenedForRestoredSession ==
    /\ last.event \in {"navbarInstall", "heroInstall"}
    /\ last.opened = INSTALL_URL
    /\ user \in Users
    /\ "name" \in DOMAIN user
    /\ localStorage = StorageWith(JSONstringify(user))

\* C11: a click on a plan's checkout link goes on to the plan's URL exactly
\* when a Session exists at the click; without one the navigation is
\* prevented, authView becomes signup and showAuthModal becomes true.
CheckoutOnlyWithSession ==
    [][last'.event = "checkout" =>
        /\ last'.arg \in CheckoutUrls
        /\ (user # null <=> last'.opened = last'.arg)
        /\ (user # null <=> ~last'.defaultPrevented)
        /\ (user = null =>
              /\ last'.opened = ""
              /\ authView' = "signup"
              /\ showAuthModal')]_vars

CheckoutInterceptedAfterLoginView ==
    /\ last.event = "checkout"
    /\ last.defaultPrevented
    /\ last.opened = ""
    /\ user = null
    /\ showAuthModal
    /\ authView = "signup"
    /\ pending # <<>>
    /\ Head(pending).authView = "login"

\* C12: login(email) and signup(email) are observably the same: from the
\* same state and with the same email, what one of them leaves in the
\* Session, the entry, showAuthModal, authView and isLoading is what the
\* other would leave.
LoginEqualsSignup ==
    [][/\ (last'.event = "login" =>
             signup(last'.arg) /\ UNCHANGED <<authView, isLoading>>)
       /\ (last'.event = "signup" =>
             login(last'.arg) /\ UNCHANGED <<authView, isLoading>>)]_vars

SignupAppliedLikeLogin ==
    /\ last.event = "signup"
    /\ user = [email |-> last.arg]
    /\ last.arg \in Emails
    /\ ~showAuthModal
    /\ isLoading
    /\ authView = "login"

\* C13: logout() is idempotent: a logout() that follows a logout() changes
\* nothing of the container.
LogoutIdempotent ==
    [][last.event = "logout" /\ last'.event = "logout" =>
        UNCHANGED <<user, isLoading, showAuthModal, authView, localStorage>>]_vars

LoggedOutAndLogoutOffered ==
    /\ last.event = "logout"
    /\ user = null
    /\ ~hasItem(localStorage, STORAGE_KEY)
    /\ showAuthModal
    /\ ENABLED CallLogout

\* C14: the session survives a reload: when the page is reloaded right after
\* login(email) or signup(email), the session check of the new page leaves
\* the Session {email}; reloaded right after logout(), it leaves the Session
\* absent.
SessionSurvivesReload ==
    [][effect = "scheduled" /\ last'.event = "sessionCheck" =>
        /\ (last.event \in {"login", "signup"} =>
              user' = [email |-> last.arg] /\ effect' = "done" /\ ~isLoading')
        /\ (last.event = "logout" =>
              user' = null /\ effect' = "done" /\ ~isLoading')]_vars

ReloadedAfterLogin ==
    /\ effect = "scheduled"
    /\ last.event \in {"login", "signup"}
    /\ user = null
    /\ isLoading
    /\ hasItem(localStorage, STORAGE_KEY)
    /\ JSONparse(localStorage[STORAGE_KEY]) = [email |-> last.arg]

\* C15: a submission cannot be cancelled: once a submit is accepted and the
\* timer fires, the Session eventually is the submitted record, the entry is
\* written and loading is false again, also when the dialog is closed or
\* authView switched during the delay.
SubmissionCompletes ==
    \A e \in Emails :
        (pending # <<>> /\ Head(pending).email = e)
            ~> (/\ user = [email |-> e]
                /\ hasItem(localStorage, STORAGE_KEY)
                /\ localStorage[STORAGE_KEY] = <<"{", "email", ":", e, "}">>
                /\ ~loading
                /\ pending = <<>>)

CompletedThoughViewSwitched ==
    /\ last.event \in {"login", "signup"}
    /\ authView # last.event
    /\ user = [email |-> last.arg]
    /\ localStorage = StorageWith(<<"{", "email", ":", last.arg, "}">>)
    /\ ~loading
    /\ ~showAuthModal

\* C16 as stated: the submission invokes login if authView is login at the
\* moment the delay has passed, and signup otherwise.
InvokesViewAtCompletion ==
    [][last'.event \in {"login", "signup"} => last'.event = authView']_vars

\* C16 as amended: the submission invokes login if authView was login at the
\* moment of the submit, and signup otherwise, also when authView was
\* switched while the submission was pending.
InvokesViewAtSubmit ==
    [][/\ (last'.event = "submit" =>
             /\ pending' # <<>>
             /\ pending'[Len(pending')].authView = authView)
       /\ (last'.event \in {"login", "signup"} =>
             /\ pending # <<>>
             /\ last'.event = Head(pending).authView
             /\ pending' = Tail(pending))]_vars

LoginInvokedInSignupView ==
    /\ last.event = "login"
    /\ authView = "signup"
    /\ user = [email |-> last.arg]
    /\ pending = <<>>

\* C17: setShowAuthModal(b) changes only showAuthModal and setAuthView(v)
\* only authView: the Session, the entry, isLoading and the other flag stay.
SettersChangeOnlyTheirFlag ==
    [][/\ (last'.event = "setShowAuthModal" =>
             /\ showAuthModal' = (last'.arg = "true")
             /\ UNCHANGED <<user, localStorage, isLoading, authView>>)
       /\ (last'.event = "setAuthView" =>
             /\ authView' = last'.arg
             /\ UNCHANGED <<user, localStorage, isLoading, showAuthModal>>)]_vars

DialogShownOverSession ==
    /\ last.event = "setShowAuthModal"
    /\ last.arg = "true"
    /\ showAuthModal
    /\ authView = "login"
    /\ user \in Users
    /\ hasItem(localStorage, STORAGE_KEY)
    /\ isLoading

\* C18: the store changes only by login/signup, which write the entry, and
\* by logout, which removes it; it never holds another key than the fixed
\* one, and what login/signup write is the record of the email alone (none
\* of isLoading, showAuthModal, authView).
StoreWrittenOnlyByAuth ==
    [][/\ (localStorage' # localStorage =>
             last'.event \in {"login", "signup", "logout"})
       /\ (last'.event \in {"login", "signup"} =>
             /\ hasItem(localStorage', STORAGE_KEY)
             /\ IsObject1(localStorage'[STORAGE_KEY])
             /\ localStorage'[STORAGE_KEY][4] = last'.arg)
       /\ (last'.event = "logout" => ~hasItem(localStorage', STORAGE_KEY))
       /\ DOMAIN localStorage' \subseteq {STORAGE_KEY}]_vars

StoreRewrittenBySubmission ==
    /\ last.event \in {"login", "signup"}
    /\ localStorage = StorageWith(<<"{", "email", ":", last.arg, "}">>)
    /\ user = [email |-> last.arg]
    /\ authView = "login"
    /\ ~isLoading

\* C19: isLoading is true only during the initial session check: it starts
\* true, it is true only while the check has not completed, and once false
\* it is never true again, whatever operations follow.
IsLoadingOnlyAtStartup ==
    /\ isLoading = TRUE
    /\ [][/\ (~isLoading => ~isLoading')
          /\ (isLoading' => effect' # "done")
          /\ (isLoading /\ ~isLoading' => last'.event = "sessionCheck")]_vars

StillReadyAfterLogout ==
    /\ ~isLoading
    /\ last.event = "logout"
    /\ user = null
    /\ effect = "done"

\* C20: a Session comes only from a login/signup or from an entry persisted
\* at startup: the Session turns from absent to present, or changes, only
\* when a form submission completes or when the session check finds an
\* entry; with an empty store the session check leaves it absent.
SessionOnlyFromAuthOrStore ==
    [][/\ (user' # user /\ user' # null =>
             \/ /\ last'.event \in {"login", "signup"}
                /\ pending # <<>>
             \/ /\ last'.event = "sessionCheck"
                /\ hasItem(localStorage, STORAGE_KEY))
       /\ (last'.event = "sessionCheck" /\ ~hasItem(localStorage, STORAGE_KEY) =>
             user' = null)]_vars

FirstSessionBySubmission ==
    /\ last.event \in {"login", "signup"}
    /\ user = [email |-> last.arg]
    /\ effect = "done"
    /\ pending = <<>>
    /\ email = ""

\* C21: once the session check has completed (isLoading false), and with the
\* entry either absent or a well-formed record, the Session and the entry
\* agree: the Session is absent exactly when the key is absent, and otherwise
\* the entry is the serialization of the Session.
WellFormedStore ==
    hasItem(localStorage, STORAGE_KEY) =>
        localStorage[STORAGE_KEY] \in {JSONstringify(u) : u \in Users}

SessionAgreesWithStore ==
    ~isLoading /\ WellFormedStore =>
        /\ (user = null <=> ~hasItem(localStorage, STORAGE_KEY))
        /\ (user # null => localStorage[STORAGE_KEY] = JSONstringify(user))

AgreeWhenCheckoutProceeds ==
    /\ ~isLoading
    /\ WellFormedStore
    /\ user \in Users
    /\ localStorage = StorageWith(JSONstringify(user))
    /\ last.event = "checkout"
    /\ ~last.defaultPrevented

\* C22: the email a submission stores is the one the email field held at the
\* submit: edits of the fields during the delay leave the pending submission
\* as it is, the completion stores the submitted email, and it clears both
\* fields.
SubmittedEmailIsStored ==
    [][/\ (last'.event = "submit" =>
             /\ pending' # <<>>
             /\ pending'[Len(pending')].email = email
             /\ email' = email)
       /\ (last'.event \in {"emailChange", "passwordChange"} => pending' = pending)
       /\ (last'.event \in {"login", "signup"} =>
             /\ pending # <<>>
             /\ user' = [email |-> Head(pending).email]
             /\ localStorage'[STORAGE_KEY] = <<"{", "email", ":", Head(pending).email, "}">>
             /\ email' = ""
             /\ password' = "")]_vars

EmailEditedDuringDelay ==
    /\ pending # <<>>
    /\ loading
    /\ last.event = "emailChange"
    /\ email \in Emails
    /\ email # Head(pending).email

\* C23: login, signup and logout never change authView, and logout never
\* changes showAuthModal or isLoading.
AuthOperationsKeepFlags ==
    [][/\ (last'.event \in {"login", "signup", "logout"} => authView' = authView)
       /\ (last'.event = "logout" =>
             showAuthModal' = showAuthModal /\ isLoading' = isLoading)]_vars

LogoutLeftDialogAndLoading ==
    /\ last.event = "logout"
    /\ user = null
    /\ showAuthModal
    /\ isLoading
    /\ authView = "login"

\* C24: the Navbar offers Login only while the Session is absent, and while
\* a Session exists it offers Logout instead; a click on Login sets authView
\* to login and showAuthModal to true and leaves the Session and the entry.
NavbarLoginOnlyWithoutSession ==
    /\ [](Mounted =>
            /\ (ENABLED NavbarLoginClick => user = null)
            /\ (user # null => ENABLED NavbarLogoutClick /\ ~ENABLED NavbarLoginClick))
    /\ [][/\ (last'.event = "navbarLogin" =>
                /\ user = null
                /\ authView' = "login"
                /\ showAuthModal'
                /\ UNCHANGED <<user, localStorage>>)
          /\ (last'.event = "logout" => user # null)]_vars

LoginClickedFromSignupView ==
    /\ last.event = "navbarLogin"
    /\ user = null
    /\ authView = "login"
    /\ showAuthModal
    /\ pending # <<>>
    /\ Head(pending).authView = "signup"

TypeOK ==
    /\ user \in Users \cup {null}
    /\ isLoading \in BOOLEAN
    /\ showAuthModal \in BOOLEAN
    /\ authView \in {"login", "signup"}
    /\ DOMAIN localStorage \subseteq {STORAGE_KEY}
    /\ email \in EmailInputs
    /\ password \in PasswordInputs
    /\ loading \in BOOLEAN
    /\ effect \in {"scheduled", "done", "failed"}
====
